---- MODULE Spec2Model ----
(***************************************************************************)
(* Trade journal (Streamlit app backed by one SQLite table).               *)
(*                                                                         *)
(* Every user interaction re-runs the script of app.py from the top: the   *)
(* handler of the pressed button (CSV import, manual add, save screenshot) *)
(* runs first, then the trades of the logged-in user are loaded and the    *)
(* derived columns and the dashboard metrics are recomputed.  One action   *)
(* of this model is one such run.                                          *)
(*                                                                         *)
(* Numbers.  The columns entry/stoploss/takeprofit/lot are IEEE doubles.   *)
(* A double is modelled as a record [k, v]: k = "fin" with v an integer    *)
(* (prices in ticks, lots in lot units, so PnL/Risk/Reward are exact       *)
(* integers), k = "inf" with v the sign, or k = "nan".  RR and the         *)
(* dashboard's rounded ratios are kept in hundredths.  Lots are never      *)
(* negative in the inputs of this model, so no negative zero arises in a   *)
(* denominator.                                                            *)
(*                                                                         *)
(* Text.  A direction is a tuple of one-letter strings, so that            *)
(* str.capitalize() can be computed letter by letter.                      *)
(***************************************************************************)
EXTENDS Integers, Sequences, FiniteSets, TLC

VARIABLES
    trades,     \* the rows of table "trades", in rowid order
    now,        \* the wall clock read by CURRENT_TIMESTAMP and datetime.now()
    username,   \* the logged-in user of the session
    page,       \* the sidebar radio
    csv_df,     \* the rows of the CSV file the last run imported
    imported,   \* counters of the last run's import loop
    skipped,
    flash,      \* the st.success / st.error message of the last run
    out         \* what the last run computed and showed

vars == <<trades, now, username, page, csv_df, imported, skipped, flash, out>>

----------------------------------------------------------------------------
(* Bounds of the model *)

MaxTrades == 2      \* rows the table may hold
MaxRows == 2        \* rows of an uploaded CSV file
MaxTime == 1        \* seconds the clock may advance

----------------------------------------------------------------------------
(* Doubles *)

F(n) == [k |-> "fin", v |-> n]
NaN == [k |-> "nan", v |-> 0]
PInf == [k |-> "inf", v |-> 1]
NInf == [k |-> "inf", v |-> -1]

IsNaN(a) == a.k = "nan"
IsFinite(a) == a.k = "fin"

Sign(n) == IF n > 0 THEN 1 ELSE IF n < 0 THEN -1 ELSE 0

FNeg(a) == IF a.k = "nan" THEN NaN ELSE [k |-> a.k, v |-> 0 - a.v]

FAdd(a, b) ==
    IF a.k = "nan" \/ b.k = "nan" THEN NaN
    ELSE IF a.k = "inf" /\ b.k = "inf" THEN (IF a.v = b.v THEN a ELSE NaN)
    ELSE IF a.k = "inf" THEN a
    ELSE IF b.k = "inf" THEN b
    ELSE F(a.v + b.v)

FSub(a, b) == FAdd(a, FNeg(b))

FMul(a, b) ==
    IF a.k = "nan" \/ b.k = "nan" THEN NaN
    ELSE IF a.k = "fin" /\ b.k = "fin" THEN F(a.v * b.v)
    ELSE IF Sign(a.v) * Sign(b.v) = 0 THEN NaN
    ELSE [k |-> "inf", v |-> Sign(a.v) * Sign(b.v)]

FAbs(a) ==
    IF a.k = "nan" THEN NaN
    ELSE [k |-> a.k, v |-> IF a.v < 0 THEN 0 - a.v ELSE a.v]

\* a > b, a <= b as IEEE comparisons: false as soon as one side is NaN
FGt(a, b) ==
    /\ a.k # "nan" /\ b.k # "nan"
    /\ IF a.k = "inf" THEN a.v = 1 /\ b # PInf
       ELSE IF b.k = "inf" THEN b.v = -1
       ELSE a.v > b.v

FLe(a, b) == a.k # "nan" /\ b.k # "nan" /\ ~FGt(a, b)

FMax(a, b) == IF FGt(b, a) THEN b ELSE a
FMin(a, b) == IF FGt(a, b) THEN b ELSE a

\* p / q rounded to the nearest integer, ties to the even one (q > 0)
RoundDiv(p, q) ==
    LET fl == p \div q
        r2 == 2 * (p % q)
    IN  IF r2 < q THEN fl
        ELSE IF r2 > q THEN fl + 1
        ELSE IF fl % 2 = 0 THEN fl ELSE fl + 1

\* (a / b).round(2), in hundredths; b is never negative here
DivRound2(a, b) ==
    IF a.k = "nan" \/ b.k = "nan" THEN NaN
    ELSE IF a.k = "inf" /\ b.k = "inf" THEN NaN
    ELSE IF a.k = "inf" THEN a
    ELSE IF b.k = "inf" THEN F(0)
    ELSE IF b.v = 0 THEN (IF a.v = 0 THEN NaN
                          ELSE [k |-> "inf", v |-> Sign(a.v)])
    ELSE F(RoundDiv(100 * a.v, b.v))

----------------------------------------------------------------------------
(* Text *)

CasePairs ==
    { <<"b", "B">>, <<"u", "U">>, <<"y", "Y">>, <<"s", "S">>, <<"e", "E">>,
      <<"l", "L">>, <<"h", "H">>, <<"o", "O">>, <<"d", "D">> }

ToUpper(c) ==
    IF \E p \in CasePairs : p[1] = c
    THEN (CHOOSE p \in CasePairs : p[1] = c)[2] ELSE c

ToLower(c) ==
    IF \E p \in CasePairs : p[2] = c
    THEN (CHOOSE p \in CasePairs : p[2] = c)[1] ELSE c

\* str.capitalize(): first letter upper case, the rest lower case
Capitalize(s) ==
    [i \in 1..Len(s) |-> IF i = 1 THEN ToUpper(s[i]) ELSE ToLower(s[i])]

Buy == <<"B", "u", "y">>
Sell == <<"S", "e", "l", "l">>

----------------------------------------------------------------------------
(* Table "trades" *)

Null == "NULL"
NoFile == <<>>

\* INSERT INTO trades (username, pair, direction, entry, stoploss,
\* takeprofit, lot): id is AUTOINCREMENT (nothing is ever deleted by the
\* app, so it is the row count plus one), screenshot and notes are NULL,
\* created_at is CURRENT_TIMESTAMP.  A NaN bound to a REAL column is stored
\* as NULL and read back by pandas as NaN.
InsertTrade(tbl, u, pr, dir, en, sl, tp, lt, t) ==
    Append(tbl, [id |-> Len(tbl) + 1, username |-> u, pair |-> pr,
                 direction |-> dir, entry |-> en, stoploss |-> sl,
                 takeprofit |-> tp, lot |-> lt,
                 screenshot |-> NoFile, notes |-> Null, created_at |-> t])

UpdateAnyField(tbl, tid, path, nt) ==
    [i \in 1..Len(tbl) |->
        IF tbl[i].id = tid
        THEN [tbl[i] EXCEPT !.screenshot = path, !.notes = nt, !.lot = F(0)]
        ELSE tbl[i]]

\* UPDATE trades SET screenshot = ?, notes = ? WHERE id = ?
UpdateTradeReview(tbl, tid, path, nt) ==
    [i \in 1..Len(tbl) |->
        IF tbl[i].id = tid
        THEN [tbl[i] EXCEPT !.screenshot = path, !.notes = nt]
        ELSE tbl[i]]

LoadAllTrades(tbl, u) == tbl

\* SELECT * FROM trades WHERE username = ?
LoadTrades(tbl, u) == SelectSeq(tbl, LAMBDA r : r.username = u)

----------------------------------------------------------------------------
(* Calculations *)

PnLSwapped(r) ==
    IF r.direction = Buy
    THEN FMul(FSub(r.entry, r.takeprofit), r.lot)
    ELSE FMul(FSub(r.takeprofit, r.entry), r.lot)

PnL(r) ==
    IF r.direction = Buy
    THEN FMul(FSub(r.takeprofit, r.entry), r.lot)
    ELSE FMul(FSub(r.entry, r.takeprofit), r.lot)

Risk(r) == FMul(FAbs(FSub(r.entry, r.stoploss)), r.lot)
Reward(r) == FMul(FAbs(FSub(r.takeprofit, r.entry)), r.lot)
RR(r) == DivRound2(Reward(r), Risk(r))

\* Sum of s[1..i] with NaN taken as 0 (pandas skips NaN)
RECURSIVE SumTo(_, _)
SumTo(s, i) ==
    IF i = 0 THEN F(0)
    ELSE FAdd(SumTo(s, i - 1), IF IsNaN(s[i]) THEN F(0) ELSE s[i])

\* Maximum of s[1..i] with NaN skipped
RECURSIVE MaxTo(_, _)
MaxTo(s, i) ==
    IF i = 0 THEN NInf
    ELSE FMax(MaxTo(s, i - 1), IF IsNaN(s[i]) THEN NInf ELSE s[i])

RECURSIVE MinTo(_, _)
MinTo(s, i) ==
    IF i = 0 THEN PInf
    ELSE FMin(MinTo(s, i - 1), IF IsNaN(s[i]) THEN PInf ELSE s[i])

\* Series.cumsum() / Series.cummax(): a NaN entry stays NaN and is skipped
CumSum(s) == [i \in 1..Len(s) |-> IF IsNaN(s[i]) THEN NaN ELSE SumTo(s, i)]
CumMax(s) == [i \in 1..Len(s) |-> IF IsNaN(s[i]) THEN NaN ELSE MaxTo(s, i)]

NotNaCount(s) == Cardinality({i \in 1..Len(s) : ~IsNaN(s[i])})

\* Series.sum(), Series.min(), Series.mean() (skipna)
NanSum(s) == SumTo(s, Len(s))
NanMin(s) == IF NotNaCount(s) = 0 THEN NaN ELSE MinTo(s, Len(s))
NanMeanRound(s) ==
    LET t == NanSum(s)
    IN  IF NotNaCount(s) = 0 THEN NaN
        ELSE IF t.k = "fin" THEN F(RoundDiv(t.v, NotNaCount(s)))
        ELSE t

\* The derived columns of df
Calculations(df) ==
    LET pnl == [i \in 1..Len(df) |-> PnL(df[i])]
        eq == CumSum(pnl)
        pk == CumMax(eq)
    IN  [i \in 1..Len(df) |->
            [id |-> df[i].id, username |-> df[i].username,
             pair |-> df[i].pair, direction |-> df[i].direction,
             entry |-> df[i].entry, stoploss |-> df[i].stoploss,
             takeprofit |-> df[i].takeprofit, lot |-> df[i].lot,
             screenshot |-> df[i].screenshot, notes |-> df[i].notes,
             created_at |-> df[i].created_at,
             PnL |-> pnl[i], Risk |-> Risk(df[i]), Reward |-> Reward(df[i]),
             RR |-> RR(df[i]),
             Equity |-> eq[i], Peak |-> pk[i],
             Drawdown |-> FSub(eq[i], pk[i])]]

Column(df, c) == [i \in 1..Len(df) |-> df[i][c]]

\* The five st.metric values of the dashboard.  WinRate is in hundredths of
\* a percent, AvgRR in hundredths.
Metrics(df) ==
    [Trades |-> Len(df),
     WinRate |-> RoundDiv(10000 * Cardinality({i \in 1..Len(df) :
                                    FGt(df[i].PnL, F(0))}), Len(df)),
     AvgRR |-> NanMeanRound(Column(df, "RR")),
     MaxDD |-> NanMin(Column(df, "Drawdown")),
     NetPnL |-> NanSum(Column(df, "PnL"))]

Stopped == [status |-> "stopped", df |-> <<>>, metrics |-> <<>>]

RenderNoStop(tbl, u, pg) ==
    LET df == Calculations(LoadTrades(tbl, u))
    IN  [status |-> "shown", df |-> df,
         metrics |-> IF pg = "Dashboard"
                     THEN <<[Trades |-> 0, WinRate |-> 0, AvgRR |-> F(0),
                             MaxDD |-> F(0), NetPnL |-> F(0)]>>
                     ELSE <<>>]

\* The script from LOAD TRADES to its end: what the run shows
Render(tbl, u, pg) ==
    LET loaded == LoadTrades(tbl, u)
        df == Calculations(loaded)
    IN  IF loaded = <<>> THEN Stopped
        ELSE [status |-> "shown", df |-> df,
              metrics |-> IF pg = "Dashboard" THEN <<Metrics(df)>> ELSE <<>>]

----------------------------------------------------------------------------
(* Inputs *)

\* auth.py: the two configured accounts
Users == {"vicky", "test"}

Pages == {"Dashboard", "Trades", "Analytics"}

\* The "Add Trade" form: pair select box, direction radio, three price
\* inputs, lot input with min_value 0.01 (one lot unit here)
FormPairs == {"EURUSD"}
FormDirections == {Buy, Sell}
FormEntries == {F(1)}
FormStops == {F(0)}
FormTargets == {F(2)}
FormLots == {F(2)}

\* A cell of the data frame read from the CSV: a number (float64, "inf"
\* included), an empty cell (NaN), or text that float() cannot parse
Num(x) == [t |-> "num", x |-> x]
Empty == [t |-> "empty", x |-> NaN]
Text == [t |-> "text", x |-> NaN]

\* pd.notna(cell)
NotNa(c) == c.t # "empty"

\* float(cell) raises ValueError
FloatRaises(c) == c.t = "text"

\* float(cell) when it does not raise
Float(c) == c.x

\* The rows of the uploaded files, after the column mapping: one ordinary
\* row and rows that differ from it in one cell
BaseRow ==
    [pair |-> "EURUSD", direction |-> <<"b", "u", "y">>,
     entry |-> Num(F(1)), stoploss |-> Num(F(0)),
     takeprofit |-> Num(F(2)), lot |-> Num(F(2))]

CsvRows ==
    {BaseRow}
    \cup {[BaseRow EXCEPT !.direction = d] :
            d \in { <<"B", "U", "Y">>, <<"s", "e", "l", "l">> }}
    \cup {[BaseRow EXCEPT !.stoploss = Text]}

\* More rows of that kind, for the specification of the ingestion
RichRows ==
    CsvRows
    \cup {[BaseRow EXCEPT !.direction = d] :
            d \in { <<"B", "u", "y">>, <<"S", "E", "L", "L">>,
                    <<"h", "o", "l", "d">> }}
    \cup {[BaseRow EXCEPT !.entry = c] : c \in {Empty, Text, Num(PInf)}}
    \cup {[BaseRow EXCEPT !.stoploss = c] : c \in {Num(F(1)), Empty}}
    \cup {[BaseRow EXCEPT !.takeprofit = c] : c \in {Num(F(0)), Empty, Text}}
    \cup {[BaseRow EXCEPT !.lot = c] : c \in {Num(F(0)), Empty, Text}}

Images == {"none", "png"}
NoteTexts == {"ok"}

----------------------------------------------------------------------------
(* The import loop *)

\* An exception is raised while the tuple of INSERT parameters is built
RowRaises(row) ==
    \/ FloatRaises(row.entry)
    \/ NotNa(row.stoploss) /\ FloatRaises(row.stoploss)
    \/ NotNa(row.takeprofit) /\ FloatRaises(row.takeprofit)
    \/ FloatRaises(row.lot)

\* str(row[direction_col]).capitalize()
RowDirection(s) == Capitalize(s)

InsertRow(tbl, u, row, t) ==
    InsertTrade(tbl, u, row.pair, RowDirection(row.direction),
                Float(row.entry),
                IF NotNa(row.stoploss) THEN Float(row.stoploss) ELSE F(0),
                IF NotNa(row.takeprofit) THEN Float(row.takeprofit) ELSE F(0),
                Float(row.lot), t)

\* for _, row in csv_df.iterrows(): try INSERT; imported += 1
\* except Exception: skipped += 1
RECURSIVE ImportLoop(_, _, _, _, _)
ImportLoop(rows, i, u, t, st) ==
    IF i > Len(rows) THEN st
    ELSE ImportLoop(rows, i + 1, u, t,
            IF RowRaises(rows[i])
            THEN [st EXCEPT !.skipped = @ + 1]
            ELSE [tbl |-> InsertRow(st.tbl, u, rows[i], t),
                  imported |-> st.imported + 1, skipped |-> st.skipped])

----------------------------------------------------------------------------
(* The runs of the script *)

Init ==
    /\ trades = <<>>
    /\ now = 0
    /\ username \in Users
    /\ page = "Dashboard"
    /\ csv_df = <<>>
    /\ imported = 0
    /\ skipped = 0
    /\ flash = ""
    /\ out = Stopped

NoImport == csv_df' = <<>> /\ imported' = 0 /\ skipped' = 0

\* A user logs in: a new session, the radio on its first option
Login(u) ==
    /\ u # username
    /\ username' = u
    /\ page' = "Dashboard"
    /\ flash' = ""
    /\ out' = Render(trades, u, "Dashboard")
    /\ NoImport
    /\ UNCHANGED <<trades, now>>

\* The user picks a page in the sidebar
Navigate(pg) ==
    /\ pg # page
    /\ page' = pg
    /\ flash' = ""
    /\ out' = Render(trades, username, pg)
    /\ NoImport
    /\ UNCHANGED <<trades, now, username>>

\* "Import Trades" pressed with an uploaded file
ImportTrades(file) ==
    /\ Len(trades) + Len(file) <= MaxTrades
    /\ LET st == ImportLoop(file, 1, username, now,
                            [tbl |-> trades, imported |-> 0, skipped |-> 0])
       IN  /\ trades' = st.tbl
           /\ imported' = st.imported
           /\ skipped' = st.skipped
           /\ out' = Render(st.tbl, username, page)
    /\ csv_df' = file
    /\ flash' = "imported"
    /\ UNCHANGED <<now, username, page>>

\* "Save Trade" pressed in the form
SaveTrade(pr, dir, en, sl, tp, lt) ==
    /\ Len(trades) < MaxTrades
    /\ trades' = InsertTrade(trades, username, pr, dir, en, sl, tp, lt, now)
    /\ flash' = "saved"
    /\ out' = Render(trades', username, page)
    /\ NoImport
    /\ UNCHANGED <<now, username, page>>

\* "Save Screenshot" pressed on the Trades page; the select box offers the
\* ids of the loaded trades
SaveScreenshot(tid, img, nt) ==
    /\ page = "Trades"
    /\ out.status = "shown"
    /\ \E i \in 1..Len(out.df) : out.df[i].id = tid
    /\ IF img = "none"
       THEN /\ flash' = "image_error"
            /\ UNCHANGED <<trades, out>>
       ELSE /\ trades' = UpdateTradeReview(trades, tid,
                                           <<username, tid, now>>, nt)
            /\ flash' = "screenshot_saved"
            /\ out' = Render(trades', username, page)
    /\ NoImport
    /\ UNCHANGED <<now, username, page>>

\* Time passes
Tick ==
    /\ now < MaxTime
    /\ now' = now + 1
    /\ UNCHANGED <<trades, username, page, csv_df, imported, skipped,
                   flash, out>>

DoLogin == \E u \in Users : Login(u)
DoNavigate == \E pg \in Pages : Navigate(pg)
DoImportTrades ==
    \E n \in 0..MaxRows :
        /\ Len(trades) + n <= MaxTrades
        /\ \E file \in [1..n -> CsvRows] : ImportTrades(file)
DoImportRich ==
    \E n \in 0..MaxRows :
        /\ Len(trades) + n <= MaxTrades
        /\ \E file \in [1..n -> RichRows] : ImportTrades(file)
DoSaveTrade ==
    \E pr \in FormPairs, dir \in FormDirections, en \in FormEntries,
       sl \in FormStops, tp \in FormTargets, lt \in FormLots :
        SaveTrade(pr, dir, en, sl, tp, lt)
\* The form with more of its values: the price inputs start at 0.0
DoSaveTradeWide ==
    \E pr \in FormPairs, dir \in FormDirections, en \in {F(0), F(1)},
       sl \in {F(0), F(1)}, tp \in {F(0), F(1), F(2)}, lt \in {F(1), F(2)} :
        SaveTrade(pr, dir, en, sl, tp, lt)
DoSaveScreenshot ==
    \E tid \in 1..MaxTrades, img \in Images, nt \in NoteTexts :
        SaveScreenshot(tid, img, nt)

\* Both accounts; the clock stands still
Next ==
    \/ DoLogin
    \/ DoNavigate
    \/ DoImportTrades
    \/ DoSaveTrade
    \/ DoSaveScreenshot

Spec == Init /\ [][Next]_vars

\* One account importing files with all kinds of cells, with time passing
IngestNext ==
    \/ DoNavigate
    \/ DoImportRich
    \/ Tick

SpecIngest == Init /\ [][IngestNext]_vars

\* One account entering trades in the form
FormNext ==
    \/ DoNavigate
    \/ DoSaveTradeWide

SpecForm == Init /\ [][FormNext]_vars

----------------------------------------------------------------------------
(* Properties *)

Shown == out.status = "shown"
Rows == 1..Len(out.df)
Own == {i \in 1..Len(trades) : trades[i].username = username}

\* Sum and maximum of s[1..i], nothing skipped
RECURSIVE PlainSum(_, _)
PlainSum(s, i) == IF i = 0 THEN F(0) ELSE FAdd(PlainSum(s, i - 1), s[i])

RECURSIVE PlainMax(_, _)
PlainMax(s, i) == IF i = 1 THEN s[1] ELSE FMax(PlainMax(s, i - 1), s[i])

\* The rows of the imported file the loop accepted, in file order
Accepted == SelectSeq(csv_df, LAMBDA row : ~RowRaises(row))

\* The text of a direction cell spells Buy or Sell, in any case
Lower(s) == [i \in 1..Len(s) |-> ToLower(s[i])]
SpellsBuy(row) == Lower(row.direction) = <<"b", "u", "y">>
SpellsSell(row) == Lower(row.direction) = <<"s", "e", "l", "l">>

\* The cell holds a finite number
FiniteCell(c) == c.t = "num" /\ IsFinite(c.x)

\* The row passes the validation of the ingestion contract: a recognised
\* direction, entry and lot finite numbers, lot > 0
ValidRow(row) ==
    /\ SpellsBuy(row) \/ SpellsSell(row)
    /\ FiniteCell(row.entry)
    /\ FiniteCell(row.lot) /\ row.lot.x.v > 0

\* C1: every shown trade with Risk = 0 has RR = 0, and the average RR of
\* the dashboard is a finite number
C1_ZeroRiskZeroRR ==
    Shown =>
        /\ \A i \in Rows : out.df[i].Risk = F(0) => out.df[i].RR = F(0)
        /\ out.metrics # <<>> => IsFinite(out.metrics[1].AvgRR)

\* C2: the PnL shown for a trade stored as "Buy" is (takeprofit - entry) *
\* lot and for a trade stored as "Sell" (entry - takeprofit) * lot; a CSV
\* row spelling buy or sell in any case is stored and computed as that
\* direction
C2_PnlByDirection ==
    /\ Shown =>
        \A i \in Rows :
            LET r == out.df[i] IN
            IsFinite(r.entry) /\ IsFinite(r.takeprofit) /\ IsFinite(r.lot) =>
                /\ r.direction = Buy =>
                    r.PnL = F((r.takeprofit.v - r.entry.v) * r.lot.v)
                /\ r.direction = Sell =>
                    r.PnL = F((r.entry.v - r.takeprofit.v) * r.lot.v)
    /\ flash = "imported" =>
        \A k \in 1..Len(Accepted) :
            LET row == Accepted[k]
                r == out.df[Len(out.df) - Len(Accepted) + k]
            IN  FiniteCell(row.entry) /\ FiniteCell(row.takeprofit)
                /\ FiniteCell(row.lot) =>
                    /\ SpellsBuy(row) =>
                        /\ r.direction = Buy
                        /\ r.PnL = F((row.takeprofit.x.v - row.entry.x.v)
                                     * row.lot.x.v)
                    /\ SpellsSell(row) =>
                        /\ r.direction = Sell
                        /\ r.PnL = F((row.entry.x.v - row.takeprofit.x.v)
                                     * row.lot.x.v)

\* C2 witness: an import has stored a row spelled "BUY" and a row spelled
\* "sell", and a winning and a losing trade are shown
C2_Witness ==
    /\ flash = "imported"
    /\ \E k \in 1..Len(Accepted) :
        Accepted[k].direction = <<"B", "U", "Y">>
    /\ \E k \in 1..Len(Accepted) :
        Accepted[k].direction = <<"s", "e", "l", "l">>
    /\ \E i \in Rows : out.df[i].PnL = F(2)
    /\ \E i \in Rows : out.df[i].PnL = F(-2)

\* C3: Equity is the running sum of PnL, Peak the running maximum of
\* Equity, Drawdown = Equity - Peak is <= 0 in every row and 0 in the first
C3_EquityPeakDrawdown ==
    Shown =>
        LET pnl == Column(out.df, "PnL")
            eq == Column(out.df, "Equity")
        IN  /\ \A i \in Rows :
                /\ out.df[i].Equity = PlainSum(pnl, i)
                /\ out.df[i].Peak = PlainMax(eq, i)
                /\ out.df[i].Drawdown = FSub(out.df[i].Equity, out.df[i].Peak)
                /\ FLe(out.df[i].Drawdown, F(0))
            /\ out.df[1].Drawdown = F(0)

C5_BatchCounts ==
    flash = "imported" =>
        LET N == Len(csv_df)
            K == Cardinality({k \in 1..N : ~ValidRow(csv_df[k])})
            valid == SelectSeq(csv_df, ValidRow)
        IN  /\ imported + skipped = N
            /\ imported = N - K
            /\ Len(trades) >= Len(valid)
            /\ \A k \in 1..Len(valid) :
                LET r == trades[Len(trades) - Len(valid) + k]
                IN  /\ r.username = username
                    /\ r.entry = valid[k].entry.x
                    /\ r.lot = valid[k].lot.x
                    /\ r.direction = Capitalize(valid[k].direction)

\* C6: a CSV row whose direction is neither buy nor sell is skipped, and
\* every stored trade has one of the two directions
C6_DirectionRecognised ==
    /\ \A i \in 1..Len(trades) : trades[i].direction \in {Buy, Sell}
    /\ flash = "imported" =>
        skipped >= Cardinality({k \in 1..Len(csv_df) :
                        ~(SpellsBuy(csv_df[k]) \/ SpellsSell(csv_df[k]))})

\* C7: a CSV row whose entry or lot is not a finite number, or whose lot is
\* not > 0, is skipped, and every stored trade has a finite entry and a
\* lot > 0
C7_FiniteEntryPositiveLot ==
    /\ \A i \in 1..Len(trades) :
        /\ IsFinite(trades[i].entry)
        /\ IsFinite(trades[i].lot) /\ trades[i].lot.v > 0
    /\ flash = "imported" =>
        skipped >= Cardinality({k \in 1..Len(csv_df) :
                        ~(/\ FiniteCell(csv_df[k].entry)
                          /\ FiniteCell(csv_df[k].lot)
                          /\ csv_df[k].lot.x.v > 0)})

\* C8: a CSV row whose entry and lot are numbers is accepted whatever its
\* stop-loss and take-profit cells hold
C8_OptionalPricesDefault ==
    flash = "imported" =>
        imported >= Cardinality({k \in 1..Len(csv_df) :
                        /\ ~FloatRaises(csv_df[k].entry)
                        /\ ~FloatRaises(csv_df[k].lot)})

Core(r) ==
    <<r.id, r.username, r.pair, r.direction, r.entry, r.stoploss,
      r.takeprofit, r.lot, r.created_at>>

\* C9: no run removes a record or changes the id, owner, pair, direction,
\* prices, lot or created_at of a record; a run that changes the screenshot
\* or notes of a record is a screenshot save, which changes one record
\* only, the one whose id was selected, and adds none
C9_RecordsImmutable ==
    [][ /\ Len(trades') >= Len(trades)
        /\ \A i \in 1..Len(trades) : Core(trades'[i]) = Core(trades[i])
        /\ LET changed == {i \in 1..Len(trades) : trades'[i] # trades[i]}
           IN  changed # {} =>
                /\ flash' = "screenshot_saved"
                /\ Len(trades') = Len(trades)
                /\ Cardinality(changed) = 1
                /\ \A i \in changed :
                    /\ trades'[i].screenshot =
                            <<username, trades[i].id, now>>
                    /\ \E j \in Rows : out.df[j].id = trades[i].id
      ]_vars

\* C9 witness: a screenshot has been saved for one of several records
C9_Witness ==
    /\ Len(trades) >= 2
    /\ \E i \in 1..Len(trades) : trades[i].screenshot # NoFile
    /\ \E i \in 1..Len(trades) : trades[i].screenshot = NoFile
    /\ flash = "screenshot_saved"

\* C10: what a run shows to a user is the user's own records, all of them
\* and in table order; a run of one user leaves the records of the other
\* users as they are and adds records of that user only
C10_OwnerPartition ==
    /\ [](/\ Len(out.df) = Cardinality(Own)
          /\ \A j \in Rows :
                /\ out.df[j].username = username
                /\ \E i \in Own : Core(out.df[j]) = Core(trades[i])
          /\ \A j, k \in Rows : j < k => out.df[j].id < out.df[k].id)
    /\ [][ /\ Len(trades') >= Len(trades)
           /\ \A i \in 1..Len(trades) :
                trades[i].username # username' => trades'[i] = trades[i]
           /\ \A i \in (Len(trades) + 1)..Len(trades') :
                trades'[i].username = username'
         ]_vars

\* C10 witness: a user sees a reviewed trade of their own while the table
\* holds a trade of the other user
C10_Witness ==
    /\ Shown
    /\ \E i, j \in 1..Len(trades) :
        /\ trades[i].username # username
        /\ trades[j].username = username
        /\ trades[j].screenshot # NoFile

====
